---- MODULE Spec2Model ----
(***************************************************************************)
(* BeaverDoc footer stamper: addUidAndTokenToPdf.                          *)
(*                                                                         *)
(* Buffers live in a heap of byte strings addressed from 1.  A call        *)
(* borrows the address of its input buffer, decodes it into a document     *)
(* object of its own, draws one footer line on every page and serialises   *)
(* the document into a newly allocated buffer.  The asynchronous steps     *)
(* (load, embedFont, save) are separate actions; the synchronous loop is   *)
(* split into one action per page so that a fault in the middle of the     *)
(* loop and the passing of wall-clock time are visible.                    *)
(*                                                                         *)
(* Lengths are kept in 1/1000 pt (the font's unit at size 1), in which     *)
(* the width of a text at the even size 6 is an even integer and the       *)
(* division by two of the centring formula is exact.                       *)
(***************************************************************************)
EXTENDS Integers, Sequences, FiniteSets, TLC

\* ---------------------------------------------------------------- bounds
MaxPages == 2
MaxBuffers == 3
MaxClock == 1

\* ------------------------------------------------------------- constants
fontSize == 6
y == 10
UnitsPerPt == 1000
HelveticaGlyphUnits == 500

Calls == {"c1", "c2"}
SeqCalls == {"c1"}

\* the identifiers of a document: generated once, at upload
DocIds == {[uid |-> "UID-X", token |-> "DOC-Y"], [uid |-> "UID-Z", token |-> "DOC-W"]}
\* signatureInfo?: <<>> is the omitted argument, <<s>> the string s
SignatureInfos == {<<>>, <<"">>, <<"Signed by Alice">>}
PageWidths == {100, 612}

GenericMessage == "Impossible de modifier le PDF pour ajouter l'UID et le token"

VARIABLES
    clock,          \* wall clock, seconds
    heap,           \* sequence of buffers (byte strings as token sequences)
    stamps,         \* per buffer: number of successful stamps that made it
    pc,             \* per call: position in addUidAndTokenToPdf
    pdfBuffer,      \* per call: address of the input buffer (0: none)
    uid, token,     \* per call: the uid and token arguments
    signatureInfo,  \* per call: <<>> (omitted) or <<string>>
    pdfDoc,         \* per call: decoded document (sequence of pages)
    font,           \* per call: <<>> or <<"Helvetica">>
    timestamp,      \* per call: formatted timestamp
    i,              \* per call: loop index (0-based)
    result,         \* per call: <<>> or <<address of the returned buffer>>
    thrown,         \* per call: <<>> or <<message of the Error thrown>>
    logged,         \* per call: causes written by console.error
    \* the REST layer (server/routes.ts)
    documents,      \* storage: the documents, by id (1..Len)
    shares,         \* storage: the shares, <<documentId, userId>>
    auditLogs,      \* storage: the audit-log rows, in insertion order
    reqKind,        \* per request: the route it came in on
    reqPc,          \* per request: position in the route handler
    reqDoc,         \* per request: the :id / :documentId parameter
    reqUser,        \* per request: the user id of the share
    reqStatus,      \* per request: HTTP status sent (0: none yet)
    reqPrimary,     \* per request: "none", "ok" or "failed"
    reqRows         \* per request: audit-log rows it has written

stamperVars == <<clock, heap, stamps, pc, pdfBuffer, uid, token, signatureInfo,
                 pdfDoc, font, timestamp, i, result, thrown, logged>>

routeVars == <<documents, shares, auditLogs, reqKind, reqPc, reqDoc, reqUser,
               reqStatus, reqPrimary, reqRows>>

vars == <<stamperVars, routeVars>>

Reqs == {"r1", "r2"}

\* no request has come in: storage holds one unsigned document
RoutesIdle ==
    /\ documents = <<[isSigned |-> FALSE]>>
    /\ shares = {}
    /\ auditLogs = <<>>
    /\ reqKind = [r \in Reqs |-> "none"]
    /\ reqPc = [r \in Reqs |-> "idle"]
    /\ reqDoc = [r \in Reqs |-> 0]
    /\ reqUser = [r \in Reqs |-> 0]
    /\ reqStatus = [r \in Reqs |-> 0]
    /\ reqPrimary = [r \in Reqs |-> "none"]
    /\ reqRows = [r \in Reqs |-> 0]

\* ------------------------------------------------- document <-> bytes
OrigItem == [op |-> "orig"]

RECURSIVE SerializeItems(_)
SerializeItems(items) ==
    IF items = <<>> THEN <<>>
    ELSE <<[t |-> "op", item |-> Head(items)]>> \o SerializeItems(Tail(items))

RECURSIVE SerializePages(_)
SerializePages(pages) ==
    IF pages = <<>> THEN <<>>
    ELSE <<[t |-> "page", width |-> Head(pages).width]>>
         \o SerializeItems(Head(pages).content)
         \o SerializePages(Tail(pages))

\* variant: the page objects are written last page first
SerializeReversed(pages) ==
    <<[t |-> "header"]>>
        \o SerializePages([k \in 1..Len(pages) |-> pages[Len(pages) + 1 - k]])
        \o <<[t |-> "eof"]>>

\* pdfDoc.save(): header, the page objects in order, trailer
Serialize(pages) ==
    <<[t |-> "header"]>> \o SerializePages(pages) \o <<[t |-> "eof"]>>

\* A byte string is a document when it has header and trailer and its first
\* object, if any, is a page.
WellFormed(bytes) ==
    /\ Len(bytes) >= 2
    /\ bytes[1].t = "header"
    /\ bytes[Len(bytes)].t = "eof"
    /\ \A k \in 2..(Len(bytes) - 1) : bytes[k].t \in {"page", "op"}
    /\ Len(bytes) > 2 => bytes[2].t = "page"

RECURSIVE ParseObjects(_, _)
ParseObjects(toks, acc) ==
    IF toks = <<>> THEN acc
    ELSE LET h == Head(toks) IN
         IF h.t = "page"
         THEN ParseObjects(Tail(toks),
                           Append(acc, [width |-> h.width, content |-> <<>>]))
         ELSE ParseObjects(Tail(toks),
                           [acc EXCEPT ![Len(acc)].content = Append(@, h.item)])

\* PDFDocument.load(): the pages of a well-formed byte string
Parse(bytes) == ParseObjects(SubSeq(bytes, 2, Len(bytes) - 1), <<>>)

\* ------------------------------------------------------------- inputs
PageKinds == {[width |-> w * UnitsPerPt, content |-> <<OrigItem>>] : w \in PageWidths}

InputDocs == UNION {[1..n -> PageKinds] : n \in 0..MaxPages}

Truncated == <<[t |-> "header"], [t |-> "page", width |-> 612 * UnitsPerPt]>>
NotADocument == <<[t |-> "junk"]>>

InputBuffers == {Serialize(d) : d \in InputDocs} \cup {Truncated, NotADocument}

\* ---------------------------------------------------------- footer text
Pad2(n) == IF n < 10 THEN "0" \o ToString(n) ELSE ToString(n)

\* now.toLocaleString('fr-FR'): dd/mm/yyyy hh:mm:ss, 24-hour
ToLocaleStringFr(t) == "01/11/2026 02:16:" \o Pad2(t)

\* variant: if (signatureInfo !== undefined)
TruthyWhenDefined(sig) == sig # <<>>

\* if (signatureInfo): undefined and "" are falsy
Truthy(sig) == sig # <<>> /\ sig[1] # ""

\* variant: the 0-based loop index is printed as the page number
BaseTextZeroBased(u, tk, idx, n) ==
    "BeaverDoc - UID: " \o u \o " | Token: " \o tk \o " | Page "
        \o ToString(idx) \o "/" \o ToString(n)

BaseText(u, tk, idx, n) ==
    "BeaverDoc - UID: " \o u \o " | Token: " \o tk \o " | Page "
        \o ToString(idx + 1) \o "/" \o ToString(n)

\* variant: the timestamp is appended whether or not a signature is given
FooterTextAlwaysStamped(u, tk, sig, ts, idx, n) ==
    IF Truthy(sig)
    THEN BaseText(u, tk, idx, n) \o " | " \o sig[1] \o " | Horodaté le " \o ts
    ELSE BaseText(u, tk, idx, n) \o " | Horodaté le " \o ts

FooterText(u, tk, sig, ts, idx, n) ==
    IF Truthy(sig)
    THEN BaseText(u, tk, idx, n) \o " | " \o sig[1] \o " | Horodaté le " \o ts
    ELSE BaseText(u, tk, idx, n)

\* font.widthOfTextAtSize(text, size), in 1/1000 pt
WidthOfTextAtSize(text, size) == Len(text) * HelveticaGlyphUnits * size

\* variant: x is clamped to the left edge of the page
CenterXClamped(width, textWidth) ==
    IF textWidth > width THEN 0 ELSE (width - textWidth) \div 2

CenterX(width, textWidth) == (width - textWidth) \div 2

\* the drawText operator appended to the page's content stream
FooterItem(text, width) ==
    [op |-> "drawText", text |-> text,
     x |-> CenterX(width, WidthOfTextAtSize(text, fontSize)),
     y |-> y * UnitsPerPt, size |-> fontSize, font |-> "Helvetica",
     color |-> <<7, 7, 7>>, opacity |-> 5]

\* variant: an earlier footer line is replaced instead of kept
DrawTextReplacing(page, item) ==
    [page EXCEPT !.content =
        Append(SelectSeq(@, LAMBDA it : it.op # "drawText"), item)]

\* page.drawText(): additive
DrawText(page, item) == [page EXCEPT !.content = Append(@, item)]

\* ------------------------------------------------------------- actions
Init ==
    /\ clock = 0
    /\ \E b \in InputBuffers : heap = <<b>>
    /\ \E id \in DocIds :
        /\ uid = [c \in Calls |-> id.uid]
        /\ token = [c \in Calls |-> id.token]
    /\ stamps = <<0>>
    /\ pc = [c \in Calls |-> "idle"]
    /\ pdfBuffer = [c \in Calls |-> 0]
    /\ signatureInfo = [c \in Calls |-> <<>>]
    /\ pdfDoc = [c \in Calls |-> <<>>]
    /\ font = [c \in Calls |-> <<>>]
    /\ timestamp = [c \in Calls |-> ""]
    /\ i = [c \in Calls |-> 0]
    /\ result = [c \in Calls |-> <<>>]
    /\ thrown = [c \in Calls |-> <<>>]
    /\ logged = [c \in Calls |-> <<>>]
    /\ RoutesIdle

Tick ==
    /\ clock < MaxClock
    /\ clock' = clock + 1
    /\ UNCHANGED <<heap, stamps, pc, pdfBuffer, uid, token, signatureInfo,
                   pdfDoc, font, timestamp, i, result, thrown, logged>>
    /\ UNCHANGED routeVars

\* The caller invokes addUidAndTokenToPdf on a buffer it holds (the uploaded
\* one or the output of an earlier stamp) with the document's uid and token.
Call(c) ==
    /\ pc[c] \in {"idle", "done", "failed"}
    /\ Len(heap) < MaxBuffers
    /\ \E a \in 1..Len(heap), s \in SignatureInfos :
        /\ pdfBuffer' = [pdfBuffer EXCEPT ![c] = a]
        /\ signatureInfo' = [signatureInfo EXCEPT ![c] = s]
    /\ pc' = [pc EXCEPT ![c] = "load"]
    /\ pdfDoc' = [pdfDoc EXCEPT ![c] = <<>>]
    /\ font' = [font EXCEPT ![c] = <<>>]
    /\ timestamp' = [timestamp EXCEPT ![c] = ""]
    /\ i' = [i EXCEPT ![c] = 0]
    /\ result' = [result EXCEPT ![c] = <<>>]
    /\ thrown' = [thrown EXCEPT ![c] = <<>>]
    /\ logged' = [logged EXCEPT ![c] = <<>>]
    /\ UNCHANGED <<clock, heap, stamps, uid, token>>
    /\ UNCHANGED routeVars

\* variant: the catch block serialises what was stamped so far and returns it
CatchReturningPartial(c, cause) ==
    /\ pc' = [pc EXCEPT ![c] = "failed"]
    /\ logged' = [logged EXCEPT ![c] = Append(@, cause)]
    /\ thrown' = [thrown EXCEPT ![c] = <<>>]
    /\ heap' = Append(heap, Serialize(pdfDoc[c]))
    /\ stamps' = Append(stamps, stamps[pdfBuffer[c]])
    /\ result' = [result EXCEPT ![c] = <<Len(heap) + 1>>]

\* variant: the catch block rethrows the error it caught
CatchRethrowing(c, cause) ==
    /\ pc' = [pc EXCEPT ![c] = "failed"]
    /\ logged' = [logged EXCEPT ![c] = Append(@, cause)]
    /\ thrown' = [thrown EXCEPT ![c] = <<cause>>]
    /\ result' = [result EXCEPT ![c] = <<>>]
    /\ UNCHANGED <<heap, stamps>>

\* catch (error) { console.error(..., error); throw new Error(...) }
Catch(c, cause) ==
    /\ pc' = [pc EXCEPT ![c] = "failed"]
    /\ logged' = [logged EXCEPT ![c] = Append(@, cause)]
    /\ thrown' = [thrown EXCEPT ![c] = <<GenericMessage>>]
    /\ result' = [result EXCEPT ![c] = <<>>]
    /\ UNCHANGED <<heap, stamps>>

\* variant: decoded documents are cached per buffer for the whole process, so
\* a call that loads a buffer another call is working on gets that call's
\* document object, with what was drawn on it so far
LoadCached(c) ==
    /\ pc[c] = "load"
    /\ IF WellFormed(heap[pdfBuffer[c]])
       THEN /\ pdfDoc' = [pdfDoc EXCEPT ![c] =
                   IF \E d \in Calls \ {c} :
                          /\ pc[d] \in {"embed", "loop"}
                          /\ pdfBuffer[d] = pdfBuffer[c]
                   THEN pdfDoc[CHOOSE d \in Calls \ {c} :
                                   /\ pc[d] \in {"embed", "loop"}
                                   /\ pdfBuffer[d] = pdfBuffer[c]]
                   ELSE Parse(heap[pdfBuffer[c]])]
            /\ pc' = [pc EXCEPT ![c] = "embed"]
            /\ UNCHANGED <<heap, stamps, result, thrown, logged>>
       ELSE /\ Catch(c, "ParseError")
            /\ UNCHANGED pdfDoc
    /\ UNCHANGED <<clock, pdfBuffer, uid, token, signatureInfo, font,
                   timestamp, i>>
    /\ UNCHANGED routeVars

\* const pdfDoc = await PDFDocument.load(pdfBuffer)
Load(c) ==
    /\ pc[c] = "load"
    /\ IF WellFormed(heap[pdfBuffer[c]])
       THEN /\ pdfDoc' = [pdfDoc EXCEPT ![c] = Parse(heap[pdfBuffer[c]])]
            /\ pc' = [pc EXCEPT ![c] = "embed"]
            /\ UNCHANGED <<heap, stamps, result, thrown, logged>>
       ELSE /\ Catch(c, "ParseError")
            /\ UNCHANGED pdfDoc
    /\ UNCHANGED <<clock, pdfBuffer, uid, token, signatureInfo, font,
                   timestamp, i>>
    /\ UNCHANGED routeVars

\* const font = await pdfDoc.embedFont(StandardFonts.Helvetica), then the
\* synchronous prologue of the loop: pages, now, timestamp, i = 0
EmbedFont(c) ==
    /\ pc[c] = "embed"
    /\ \/ /\ font' = [font EXCEPT ![c] = <<"Helvetica">>]
          /\ timestamp' = [timestamp EXCEPT ![c] = ToLocaleStringFr(clock)]
          /\ i' = [i EXCEPT ![c] = 0]
          /\ pc' = [pc EXCEPT ![c] = "loop"]
          /\ UNCHANGED <<heap, stamps, result, thrown, logged>>
       \/ /\ Catch(c, "RenderError")
          /\ UNCHANGED <<font, timestamp, i>>
    /\ UNCHANGED <<clock, pdfBuffer, uid, token, signatureInfo, pdfDoc>>
    /\ UNCHANGED routeVars

\* variant: the clock is read again for every page
TimestampPerPage(c) == ToLocaleStringFr(clock)

\* the timestamp a page's footer carries: the one taken before the loop
TimestampOf(c) == timestamp[c]

\* the footer line of page idx (0-based) of a call
FooterOf(c, idx) ==
    FooterItem(FooterText(uid[c], token[c], signatureInfo[c], TimestampOf(c),
                          idx, Len(pdfDoc[c])),
               pdfDoc[c][idx + 1].width)

\* variant: the loop starts at i = 1
DrawPageFromOne(c) ==
    /\ pc[c] = "loop"
    /\ i[c] < Len(pdfDoc[c])
    /\ \/ /\ pdfDoc' = [pdfDoc EXCEPT
                          ![c][i[c] + 1] =
                              IF i[c] = 0 THEN @ ELSE DrawText(@, FooterOf(c, i[c]))]
          /\ i' = [i EXCEPT ![c] = @ + 1]
          /\ UNCHANGED <<heap, stamps, pc, result, thrown, logged>>
       \/ /\ Catch(c, "RenderError")
          /\ UNCHANGED <<pdfDoc, i>>
    /\ UNCHANGED <<clock, pdfBuffer, uid, token, signatureInfo, font, timestamp>>
    /\ UNCHANGED routeVars

\* one iteration of for (let i = 0; i < pages.length; i++)
DrawPage(c) ==
    /\ pc[c] = "loop"
    /\ i[c] < Len(pdfDoc[c])
    /\ \/ /\ pdfDoc' = [pdfDoc EXCEPT
                          ![c][i[c] + 1] = DrawText(@, FooterOf(c, i[c]))]
          /\ i' = [i EXCEPT ![c] = @ + 1]
          /\ UNCHANGED <<heap, stamps, pc, result, thrown, logged>>
       \/ /\ Catch(c, "RenderError")
          /\ UNCHANGED <<pdfDoc, i>>
    /\ UNCHANGED <<clock, pdfBuffer, uid, token, signatureInfo, font, timestamp>>
    /\ UNCHANGED routeVars

\* variant: the bytes are written over the caller's buffer
AllocateInPlace(c, bytes) ==
    /\ heap' = [heap EXCEPT ![pdfBuffer[c]] = bytes]
    /\ stamps' = [stamps EXCEPT ![pdfBuffer[c]] = @ + 1]
    /\ result' = [result EXCEPT ![c] = <<pdfBuffer[c]>>]

\* Buffer.from(await pdfDoc.save()): the bytes go to a new buffer
Allocate(c, bytes) ==
    /\ heap' = Append(heap, bytes)
    /\ stamps' = Append(stamps, stamps[pdfBuffer[c]] + 1)
    /\ result' = [result EXCEPT ![c] = <<Len(heap) + 1>>]

\* loop exit, const modifiedPdfBytes = await pdfDoc.save(), return
Save(c) ==
    /\ pc[c] = "loop"
    /\ i[c] >= Len(pdfDoc[c])
    /\ \/ /\ Allocate(c, Serialize(pdfDoc[c]))
          /\ pc' = [pc EXCEPT ![c] = "done"]
          /\ UNCHANGED <<thrown, logged>>
       \/ Catch(c, "SerializationError")
    /\ UNCHANGED <<clock, pdfBuffer, uid, token, signatureInfo, pdfDoc, font,
                   timestamp, i>>
    /\ UNCHANGED routeVars

Step(c) ==
    \/ Call(c)
    \/ Load(c)
    \/ EmbedFont(c)
    \/ DrawPage(c)
    \/ Save(c)

\* one caller that awaits each call before making the next
Next ==
    \/ Tick
    \/ \E c \in SeqCalls : Step(c)

Spec == Init /\ [][Next]_vars

\* ------------------------------------------------- concurrent callers
\* Two callers (two upload requests), each with the identifiers of its own
\* document, call the stamper on the same event loop.
InitConcurrent ==
    /\ clock = 0
    /\ \E b \in InputBuffers : heap = <<b>>
    /\ uid = [c \in Calls |-> IF c = "c1" THEN "UID-X" ELSE "UID-Z"]
    /\ token = [c \in Calls |-> IF c = "c1" THEN "DOC-Y" ELSE "DOC-W"]
    /\ stamps = <<0>>
    /\ pc = [c \in Calls |-> "idle"]
    /\ pdfBuffer = [c \in Calls |-> 0]
    /\ signatureInfo = [c \in Calls |-> <<>>]
    /\ pdfDoc = [c \in Calls |-> <<>>]
    /\ font = [c \in Calls |-> <<>>]
    /\ timestamp = [c \in Calls |-> ""]
    /\ i = [c \in Calls |-> 0]
    /\ result = [c \in Calls |-> <<>>]
    /\ thrown = [c \in Calls |-> <<>>]
    /\ logged = [c \in Calls |-> <<>>]
    /\ RoutesIdle

\* a call is inside the loop: between two awaits, where JavaScript runs it to
\* completion and no other call gets the thread
InLoop(c) == pc[c] = "loop" /\ i[c] < Len(pdfDoc[c])

\* a call may take its next step: no other call is inside the loop, and each
\* caller makes one call
MayRun(c) ==
    /\ \A d \in Calls \ {c} : ~InLoop(d)
    /\ pc[c] \notin {"done", "failed"}

\* calls interleave at their awaits (load, embedFont, save), in any order
NextConcurrent ==
    \/ Tick
    \/ \E c \in Calls : MayRun(c) /\ Call(c)
    \/ \E c \in Calls : MayRun(c) /\ Load(c)
    \/ \E c \in Calls : MayRun(c) /\ EmbedFont(c)
    \/ \E c \in Calls : MayRun(c) /\ DrawPage(c)
    \/ \E c \in Calls : MayRun(c) /\ Save(c)

SpecConcurrent == InitConcurrent /\ [][NextConcurrent]_vars

\* ------------------------------------------------------ route handlers
\* The upload, sign, share and remove-share handlers of registerRoutes.  A
\* handler runs from one await to the next; a storage operation either takes
\* effect or throws, and a throw anywhere in the try block answers 500.

\* :id values the clients ask for; user ids of shares
RequestedIds == {1, 2}
ShareUserIds == {2, 3}

\* the stamper is not called by the routes: its state stays as constructed
StamperIdle ==
    /\ clock = 0
    /\ heap = <<Serialize(<<>>)>>
    /\ stamps = <<0>>
    /\ uid = [c \in Calls |-> "UID-X"]
    /\ token = [c \in Calls |-> "DOC-Y"]
    /\ pc = [c \in Calls |-> "idle"]
    /\ pdfBuffer = [c \in Calls |-> 0]
    /\ signatureInfo = [c \in Calls |-> <<>>]
    /\ pdfDoc = [c \in Calls |-> <<>>]
    /\ font = [c \in Calls |-> <<>>]
    /\ timestamp = [c \in Calls |-> ""]
    /\ i = [c \in Calls |-> 0]
    /\ result = [c \in Calls |-> <<>>]
    /\ thrown = [c \in Calls |-> <<>>]
    /\ logged = [c \in Calls |-> <<>>]

InitRoutes == StamperIdle /\ RoutesIdle

\* res.status(code)...: the response ends the handler
Send(r, code) ==
    /\ reqStatus' = [reqStatus EXCEPT ![r] = code]
    /\ reqPc' = [reqPc EXCEPT ![r] = "sent"]

\* await storage.createAuditLog({documentId, userId: 1, action, details})
CreateAuditLog(r, action) ==
    /\ auditLogs' = Append(auditLogs,
           [documentId |-> reqDoc[r], userId |-> 1, action |-> action])
    /\ reqRows' = [reqRows EXCEPT ![r] = @ + 1]
    /\ reqPc' = [reqPc EXCEPT ![r] = "respond"]

\* a request comes in on one of the four routes (each client sends one)
Receive(r) ==
    /\ reqPc[r] = "idle"
    /\ \E k \in {"upload", "sign", "share", "unshare"} :
        /\ reqKind' = [reqKind EXCEPT ![r] = k]
        /\ \E d \in RequestedIds, u \in ShareUserIds :
            /\ reqDoc' = [reqDoc EXCEPT ![r] = IF k = "upload" THEN 0 ELSE d]
            /\ reqUser' = [reqUser EXCEPT ![r] = IF k = "unshare" THEN u ELSE 0]
    /\ reqPc' = [reqPc EXCEPT ![r] = "start"]
    /\ reqStatus' = [reqStatus EXCEPT ![r] = 0]
    /\ reqPrimary' = [reqPrimary EXCEPT ![r] = "none"]
    /\ reqRows' = [reqRows EXCEPT ![r] = 0]
    /\ UNCHANGED <<documents, shares, auditLogs>>
    /\ UNCHANGED stamperVars

\* POST /api/documents/upload: file check, options, document, zod validation
UploadValidate(r) ==
    /\ reqKind[r] = "upload" /\ reqPc[r] = "start"
    /\ \/ Send(r, 400)
       \/ Send(r, 500)
       \/ /\ reqPc' = [reqPc EXCEPT ![r] = "primary"]
          /\ UNCHANGED reqStatus
    /\ UNCHANGED <<documents, shares, auditLogs, reqKind, reqDoc, reqUser,
                   reqPrimary, reqRows>>
    /\ UNCHANGED stamperVars

\* const createdDoc = await storage.createDocument(validatedDoc)
UploadCreate(r) ==
    /\ reqKind[r] = "upload" /\ reqPc[r] = "primary"
    /\ \/ /\ \E signAfterImport \in BOOLEAN :
                documents' = Append(documents, [isSigned |-> signAfterImport])
          /\ reqDoc' = [reqDoc EXCEPT ![r] = Len(documents) + 1]
          /\ reqPrimary' = [reqPrimary EXCEPT ![r] = "ok"]
          /\ reqPc' = [reqPc EXCEPT ![r] = "audit"]
          /\ UNCHANGED reqStatus
       \/ /\ reqPrimary' = [reqPrimary EXCEPT ![r] = "failed"]
          /\ Send(r, 500)
          /\ UNCHANGED <<documents, reqDoc>>
    /\ UNCHANGED <<shares, auditLogs, reqKind, reqUser, reqRows>>
    /\ UNCHANGED stamperVars

\* await storage.createAuditLog({... action: 'create' ...})
UploadAudit(r) ==
    /\ reqKind[r] = "upload" /\ reqPc[r] = "audit"
    /\ \/ /\ CreateAuditLog(r, "create")
          /\ UNCHANGED reqStatus
       \/ /\ Send(r, 500)
          /\ UNCHANGED <<auditLogs, reqRows>>
    /\ UNCHANGED <<documents, shares, reqKind, reqDoc, reqUser, reqPrimary>>
    /\ UNCHANGED stamperVars

\* res.status(201).json(createdDoc)
UploadRespond(r) ==
    /\ reqKind[r] = "upload" /\ reqPc[r] = "respond"
    /\ Send(r, 201)
    /\ UNCHANGED <<documents, shares, auditLogs, reqKind, reqDoc, reqUser,
                   reqPrimary, reqRows>>
    /\ UNCHANGED stamperVars

\* POST /api/documents/:id/sign: await storage.getDocument, 404 when none
SignLookup(r) ==
    /\ reqKind[r] = "sign" /\ reqPc[r] = "start"
    /\ \/ Send(r, 500)
       \/ /\ reqDoc[r] \notin 1..Len(documents)
          /\ Send(r, 404)
       \/ /\ reqDoc[r] \in 1..Len(documents)
          /\ reqPc' = [reqPc EXCEPT ![r] = "primary"]
          /\ UNCHANGED reqStatus
    /\ UNCHANGED <<documents, shares, auditLogs, reqKind, reqDoc, reqUser,
                   reqPrimary, reqRows>>
    /\ UNCHANGED stamperVars

\* const updatedDoc = await storage.updateDocument(documentId, {...})
SignUpdate(r) ==
    /\ reqKind[r] = "sign" /\ reqPc[r] = "primary"
    /\ \/ /\ documents' = [documents EXCEPT ![reqDoc[r]].isSigned = TRUE]
          /\ reqPrimary' = [reqPrimary EXCEPT ![r] = "ok"]
          /\ reqPc' = [reqPc EXCEPT ![r] = "audit"]
          /\ UNCHANGED reqStatus
       \/ /\ reqPrimary' = [reqPrimary EXCEPT ![r] = "failed"]
          /\ Send(r, 500)
          /\ UNCHANGED documents
    /\ UNCHANGED <<shares, auditLogs, reqKind, reqDoc, reqUser, reqRows>>
    /\ UNCHANGED stamperVars

\* await storage.createAuditLog({... action: 'sign' ...})
SignAudit(r) ==
    /\ reqKind[r] = "sign" /\ reqPc[r] = "audit"
    /\ \/ /\ CreateAuditLog(r, "sign")
          /\ UNCHANGED reqStatus
       \/ /\ Send(r, 500)
          /\ UNCHANGED <<auditLogs, reqRows>>
    /\ UNCHANGED <<documents, shares, reqKind, reqDoc, reqUser, reqPrimary>>
    /\ UNCHANGED stamperVars

\* res.json(updatedDoc)
SignRespond(r) ==
    /\ reqKind[r] = "sign" /\ reqPc[r] = "respond"
    /\ Send(r, 200)
    /\ UNCHANGED <<documents, shares, auditLogs, reqKind, reqDoc, reqUser,
                   reqPrimary, reqRows>>
    /\ UNCHANGED stamperVars

\* POST /api/documents/:id/shares: shareData with a random user, zod validation
ShareValidate(r) ==
    /\ reqKind[r] = "share" /\ reqPc[r] = "start"
    /\ \/ /\ Send(r, 500)
          /\ UNCHANGED reqUser
       \/ /\ \E u \in ShareUserIds : reqUser' = [reqUser EXCEPT ![r] = u]
          /\ reqPc' = [reqPc EXCEPT ![r] = "primary"]
          /\ UNCHANGED reqStatus
    /\ UNCHANGED <<documents, shares, auditLogs, reqKind, reqDoc, reqPrimary,
                   reqRows>>
    /\ UNCHANGED stamperVars

\* const share = await storage.createDocumentShare(validatedShare)
ShareCreate(r) ==
    /\ reqKind[r] = "share" /\ reqPc[r] = "primary"
    /\ \/ /\ shares' = shares \cup {<<reqDoc[r], reqUser[r]>>}
          /\ reqPrimary' = [reqPrimary EXCEPT ![r] = "ok"]
          /\ reqPc' = [reqPc EXCEPT ![r] = "audit"]
          /\ UNCHANGED reqStatus
       \/ /\ reqPrimary' = [reqPrimary EXCEPT ![r] = "failed"]
          /\ Send(r, 500)
          /\ UNCHANGED shares
    /\ UNCHANGED <<documents, auditLogs, reqKind, reqDoc, reqUser, reqRows>>
    /\ UNCHANGED stamperVars

\* await storage.createAuditLog({... action: 'share' ...})
ShareAudit(r) ==
    /\ reqKind[r] = "share" /\ reqPc[r] = "audit"
    /\ \/ /\ CreateAuditLog(r, "share")
          /\ UNCHANGED reqStatus
       \/ /\ Send(r, 500)
          /\ UNCHANGED <<auditLogs, reqRows>>
    /\ UNCHANGED <<documents, shares, reqKind, reqDoc, reqUser, reqPrimary>>
    /\ UNCHANGED stamperVars

\* res.status(201).json(share)
ShareRespond(r) ==
    /\ reqKind[r] = "share" /\ reqPc[r] = "respond"
    /\ Send(r, 201)
    /\ UNCHANGED <<documents, shares, auditLogs, reqKind, reqDoc, reqUser,
                   reqPrimary, reqRows>>
    /\ UNCHANGED stamperVars

\* variant: a failure of removeDocumentShare is swallowed and the handler
\* goes on to the audit log
UnshareRemoveSwallowing(r) ==
    /\ reqKind[r] = "unshare" /\ reqPc[r] = "start"
    /\ \/ /\ shares' = shares \ {<<reqDoc[r], reqUser[r]>>}
          /\ reqPrimary' = [reqPrimary EXCEPT ![r] = "ok"]
       \/ /\ reqPrimary' = [reqPrimary EXCEPT ![r] = "failed"]
          /\ UNCHANGED shares
    /\ reqPc' = [reqPc EXCEPT ![r] = "audit"]
    /\ UNCHANGED <<documents, auditLogs, reqKind, reqDoc, reqUser, reqRows,
                   reqStatus>>
    /\ UNCHANGED stamperVars

\* DELETE /api/documents/:documentId/shares/:userId:
\* await storage.removeDocumentShare(documentId, userId)
UnshareRemove(r) ==
    /\ reqKind[r] = "unshare" /\ reqPc[r] = "start"
    /\ \/ /\ shares' = shares \ {<<reqDoc[r], reqUser[r]>>}
          /\ reqPrimary' = [reqPrimary EXCEPT ![r] = "ok"]
          /\ reqPc' = [reqPc EXCEPT ![r] = "audit"]
          /\ UNCHANGED reqStatus
       \/ /\ reqPrimary' = [reqPrimary EXCEPT ![r] = "failed"]
          /\ Send(r, 500)
          /\ UNCHANGED shares
    /\ UNCHANGED <<documents, auditLogs, reqKind, reqDoc, reqUser, reqRows>>
    /\ UNCHANGED stamperVars

\* await storage.createAuditLog({... action: 'share' ...}) for the removal
UnshareAudit(r) ==
    /\ reqKind[r] = "unshare" /\ reqPc[r] = "audit"
    /\ \/ /\ CreateAuditLog(r, "share")
          /\ UNCHANGED reqStatus
       \/ /\ Send(r, 500)
          /\ UNCHANGED <<auditLogs, reqRows>>
    /\ UNCHANGED <<documents, shares, reqKind, reqDoc, reqUser, reqPrimary>>
    /\ UNCHANGED stamperVars

\* res.status(204).send()
UnshareRespond(r) ==
    /\ reqKind[r] = "unshare" /\ reqPc[r] = "respond"
    /\ Send(r, 204)
    /\ UNCHANGED <<documents, shares, auditLogs, reqKind, reqDoc, reqUser,
                   reqPrimary, reqRows>>
    /\ UNCHANGED stamperVars

\* requests are served concurrently, interleaved at the handlers' awaits
NextRoutes ==
    \/ \E r \in Reqs : Receive(r)
    \/ \E r \in Reqs : UploadValidate(r)
    \/ \E r \in Reqs : UploadCreate(r)
    \/ \E r \in Reqs : UploadAudit(r)
    \/ \E r \in Reqs : UploadRespond(r)
    \/ \E r \in Reqs : SignLookup(r)
    \/ \E r \in Reqs : SignUpdate(r)
    \/ \E r \in Reqs : SignAudit(r)
    \/ \E r \in Reqs : SignRespond(r)
    \/ \E r \in Reqs : ShareValidate(r)
    \/ \E r \in Reqs : ShareCreate(r)
    \/ \E r \in Reqs : ShareAudit(r)
    \/ \E r \in Reqs : ShareRespond(r)
    \/ \E r \in Reqs : UnshareRemove(r)
    \/ \E r \in Reqs : UnshareAudit(r)
    \/ \E r \in Reqs : UnshareRespond(r)

SpecRoutes == InitRoutes /\ [][NextRoutes]_vars

\* ------------------------------------------------------ observations
\* a call that returned a buffer
Returned(c) == pc[c] = "done" /\ result[c] # <<>>

\* the pages of the buffer a call was given, and of the one it returned
InPages(c) == Parse(heap[pdfBuffer[c]])
OutPages(c) == Parse(heap[result[c][1]])

\* the drawText operators on a page
FooterLines(page) == SelectSeq(page.content, LAMBDA it : it.op = "drawText")

\* the last operator drawn on a page
LastItem(page) == page.content[Len(page.content)]

\* ------------------------------------------------------------- claims

\* C1: a successful call on an N-page document returns a document with
\* exactly N pages, the same pages in the same order (same width, same
\* original content in front): none added, removed or reordered.
C1_PageCountPreserved ==
    \A c \in Calls : Returned(c) =>
        /\ Len(OutPages(c)) = Len(InPages(c))
        /\ \A p \in 1..Len(InPages(c)) :
            /\ OutPages(c)[p].width = InPages(c)[p].width
            /\ Len(OutPages(c)[p].content) > Len(InPages(c)[p].content)

\* C1 witness: a call returned a two-page document whose pages differ.
C1_Witness ==
    \E c \in Calls :
        /\ Returned(c)
        /\ Len(InPages(c)) = 2
        /\ InPages(c)[1].width # InPages(c)[2].width

\* C2: with signatureInfo omitted, the footer drawn on page p of N is
\* exactly "BeaverDoc - UID: <uid> | Token: <token> | Page p/N"; on a
\* one-page document with uid UID-X and token DOC-Y it is the literal of the
\* scenario.
C2_FooterTextExact ==
    \A c \in Calls : (Returned(c) /\ signatureInfo[c] = <<>>) =>
        LET n == Len(InPages(c)) IN
        /\ \A p \in 1..n :
            LastItem(OutPages(c)[p]).text =
                "BeaverDoc - UID: " \o uid[c] \o " | Token: " \o token[c]
                    \o " | Page " \o ToString(p) \o "/" \o ToString(n)
        /\ (n = 1 /\ uid[c] = "UID-X" /\ token[c] = "DOC-Y") =>
            LastItem(OutPages(c)[1]).text =
                "BeaverDoc - UID: UID-X | Token: DOC-Y | Page 1/1"

\* C2 witness: a call without signatureInfo returned a two-page document.
C2_Witness ==
    \E c \in Calls :
        /\ Returned(c)
        /\ signatureInfo[c] = <<>>
        /\ Len(InPages(c)) = 2

\* the footer text the spec writes for page p of n, without signature fields
C3_Base(c, p, n) ==
    "BeaverDoc - UID: " \o uid[c] \o " | Token: " \o token[c]
        \o " | Page " \o ToString(p) \o "/" \o ToString(n)

\* the footer text the spec writes for page p of n, with signature fields
C3_Signed(c, p, n) ==
    C3_Base(c, p, n) \o " | " \o signatureInfo[c][1]
        \o " | Horodaté le " \o timestamp[c]

\* C3 as written: omitted signatureInfo gives the base text alone, any
\* signatureInfo that is present gives the base text followed by
\* " | <signatureInfo> | Horodaté le <timestamp>".
C3_Original ==
    \A c \in Calls : Returned(c) =>
        \A p \in 1..Len(InPages(c)) :
            LastItem(OutPages(c)[p]).text =
                IF signatureInfo[c] = <<>>
                THEN C3_Base(c, p, Len(InPages(c)))
                ELSE C3_Signed(c, p, Len(InPages(c)))

\* C3 amended: omitted signatureInfo gives the base text alone, a
\* signatureInfo that is present and not the empty string gives the base
\* text followed by " | <signatureInfo> | Horodaté le <timestamp>".
C3_SignatureFields ==
    \A c \in Calls : (Returned(c) /\ signatureInfo[c] # <<"">>) =>
        \A p \in 1..Len(InPages(c)) :
            LastItem(OutPages(c)[p]).text =
                IF signatureInfo[c] = <<>>
                THEN C3_Base(c, p, Len(InPages(c)))
                ELSE C3_Signed(c, p, Len(InPages(c)))

\* C3 witness: the scenario of a document signed by Alice, here
\* with at least two pages, returned with the timestamp taken at second 1.
C3_Witness ==
    \E c \in Calls :
        /\ Returned(c)
        /\ signatureInfo[c] = <<"Signed by Alice">>
        /\ Len(InPages(c)) >= 2
        /\ LastItem(OutPages(c)[2]).text =
               "BeaverDoc - UID: " \o uid[c] \o " | Token: " \o token[c]
                   \o " | Page 2/" \o ToString(Len(InPages(c)))
                   \o " | Signed by Alice | Horodaté le 01/11/2026 02:16:01"

\* C4: the call is all-or-nothing: a failed call returns no buffer, whatever
\* it had stamped before the fault; a buffer is returned only by a call that
\* stamped every page and serialised the whole document.
C4_AllOrNothing ==
    \A c \in Calls :
        /\ pc[c] = "failed" => (result[c] = <<>> /\ thrown[c] # <<>>)
        /\ result[c] # <<>> =>
            /\ pc[c] = "done"
            /\ thrown[c] = <<>>
            /\ i[c] = Len(pdfDoc[c])
            /\ \A p \in 1..Len(pdfDoc[c]) :
                Len(FooterLines(pdfDoc[c][p]))
                    = Len(FooterLines(InPages(c)[p])) + 1
            /\ heap[result[c][1]] = Serialize(pdfDoc[c])

\* C4 witness: a call failed after it had stamped a page.
C4_Witness ==
    \E c \in Calls :
        /\ pc[c] = "failed"
        /\ i[c] >= 1
        /\ Len(FooterLines(pdfDoc[c][1])) > Len(FooterLines(InPages(c)[1]))
        /\ result[c] = <<>>

\* C5: every failure reaches the caller as the one Error with the fixed
\* message, whatever was caught; the cause is in the log and not in what is
\* thrown; a call that has not failed has thrown nothing.
C5_GenericFailure ==
    \A c \in Calls :
        /\ pc[c] = "failed" =>
            /\ thrown[c] =
                <<"Impossible de modifier le PDF pour ajouter l'UID et le token">>
            /\ Len(logged[c]) = 1
            /\ logged[c][1] \in {"ParseError", "RenderError", "SerializationError"}
            /\ thrown[c][1] # logged[c][1]
        /\ pc[c] # "failed" => (thrown[c] = <<>> /\ logged[c] = <<>>)

\* C5 witness: a call failed in the serialisation step.
C5_Witness ==
    \E c \in Calls :
        pc[c] = "failed" /\ logged[c] = <<"SerializationError">>

\* C6: on a document that carried no footer, the loop has drawn exactly one
\* footer line on each of the first i pages and none on the pages after
\* them, and the returned document has exactly one footer line on every page.
C6_OneFooterPerPage ==
    \A c \in Calls :
        (pc[c] \in {"loop", "done"} /\ stamps[pdfBuffer[c]] = 0) =>
            /\ i[c] <= Len(pdfDoc[c])
            /\ \A p \in 1..Len(pdfDoc[c]) :
                Len(FooterLines(pdfDoc[c][p])) = IF p <= i[c] THEN 1 ELSE 0
            /\ Returned(c) =>
                /\ i[c] = Len(pdfDoc[c])
                /\ \A p \in 1..Len(OutPages(c)) :
                    Len(FooterLines(OutPages(c)[p])) = 1

\* C6 witness: a two-page document without footers was stamped and returned.
C6_Witness ==
    \E c \in Calls :
        /\ Returned(c)
        /\ stamps[pdfBuffer[c]] = 0
        /\ Len(OutPages(c)) = 2

\* C7: footers accumulate: every page of a buffer that k successive
\* successful stamps produced carries exactly k footer lines.
C7_FootersAccumulate ==
    \A a \in 1..Len(heap) : WellFormed(heap[a]) =>
        \A p \in 1..Len(Parse(heap[a])) :
            Len(FooterLines(Parse(heap[a])[p])) = stamps[a]

\* C7 witness: the output of a stamp was stamped again: a page carries two
\* footer lines.
C7_Witness ==
    \E a \in 1..Len(heap) :
        /\ stamps[a] = 2
        /\ Len(Parse(heap[a])) >= 1
        /\ Len(FooterLines(Parse(heap[a])[1])) = 2

\* the footer line of page p of n with every field but the page position
\* fixed: the timestamp field is that of second t
C8_LineAt(c, p, n, t) ==
    "BeaverDoc - UID: " \o uid[c] \o " | Token: " \o token[c]
        \o " | Page " \o ToString(p) \o "/" \o ToString(n)
        \o (IF Truthy(signatureInfo[c])
            THEN " | " \o signatureInfo[c][1] \o " | Horodaté le "
                     \o ToLocaleStringFr(t)
            ELSE "")

\* C8: within one call the footer texts differ only in the page position:
\* one uid, one token, one total, one signatureInfo and one timestamp (of
\* some second t up to now) serve every page, and the lines are drawn alike.
C8_SameFieldsOnEveryPage ==
    \A c \in Calls : Returned(c) =>
        /\ \E t \in 0..clock :
            \A p \in 1..Len(OutPages(c)) :
                LastItem(OutPages(c)[p]).text = C8_LineAt(c, p, Len(OutPages(c)), t)
        /\ \A p, q \in 1..Len(OutPages(c)) :
            LET a == LastItem(OutPages(c)[p])
                b == LastItem(OutPages(c)[q])
            IN  /\ a.y = b.y /\ a.size = b.size /\ a.font = b.font
                /\ a.color = b.color /\ a.opacity = b.opacity

\* C8 witness: a signed two-page document was returned and the clock has
\* moved on since the call took its timestamp.
C8_Witness ==
    \E c \in Calls :
        /\ Returned(c)
        /\ Truthy(signatureInfo[c])
        /\ Len(OutPages(c)) = 2
        /\ timestamp[c] # ToLocaleStringFr(clock)

\* what C9 says of a state: every page of the returned document holds the
\* content it held before, unchanged and in front, followed by one footer
\* line; the returned buffer is not the caller's.
C9_Additive ==
    \A c \in Calls : Returned(c) =>
        /\ result[c][1] # pdfBuffer[c]
        /\ Len(OutPages(c)) = Len(InPages(c))
        /\ \A p \in 1..Len(InPages(c)) :
            LET before == InPages(c)[p].content
                after == OutPages(c)[p].content
            IN  /\ Len(after) = Len(before) + 1
                /\ SubSeq(after, 1, Len(before)) = before
                /\ after[Len(after)].op = "drawText"

\* what C9 says of a step: no buffer that exists is written to, and a buffer
\* a call returns did not exist before the step.
C9_Fresh ==
    /\ Len(heap') >= Len(heap)
    /\ \A a \in 1..Len(heap) : heap'[a] = heap[a]
    /\ \A c \in Calls :
        (result'[c] # <<>> /\ result'[c] # result[c]) => result'[c][1] > Len(heap)

\* C9: stamping is additive and non-destructive, the caller's buffer is not
\* modified and the result is a newly allocated buffer.
C9_NonDestructive == []C9_Additive /\ [][C9_Fresh]_vars

\* C9 witness: a document that already carried a footer was stamped again
\* and returned.
C9_Witness ==
    \E c \in Calls :
        /\ Returned(c)
        /\ Len(InPages(c)) >= 1
        /\ Len(FooterLines(InPages(c)[1])) = 1
        /\ Len(FooterLines(OutPages(c)[1])) = 2

\* C10: the footer of a page of width W whose text measures Tw at size 6 is
\* drawn whole at x = (W - Tw) / 2, y = 10, also when Tw > W, where x is
\* negative.
C10_Placement ==
    \A c \in Calls : Returned(c) =>
        \A p \in 1..Len(OutPages(c)) :
            LET line == LastItem(OutPages(c)[p])
                W == OutPages(c)[p].width
                Tw == WidthOfTextAtSize(line.text, 6)
            IN  /\ 2 * line.x = W - Tw
                /\ line.y = 10 * UnitsPerPt
                /\ line.size = 6
                /\ line.text = FooterText(uid[c], token[c], signatureInfo[c],
                                          timestamp[c], p - 1, Len(OutPages(c)))
                /\ Tw > W => line.x < 0

\* C10 witness: a call returned a page narrower than its footer text, with
\* the footer drawn at a negative x.
C10_Witness ==
    \E c \in Calls :
        /\ Returned(c)
        /\ \E p \in 1..Len(OutPages(c)) :
            /\ WidthOfTextAtSize(LastItem(OutPages(c)[p]).text, 6)
                   > OutPages(c)[p].width
            /\ LastItem(OutPages(c)[p]).x < 0

\* C12: a signatureInfo supplied as the empty string is treated like an
\* omitted one: the footer of page p of N ends at "Page p/N", is as wide and
\* is placed as the footer without signature is, and carries no signature
\* field and no "Horodaté le" field.
C12_EmptySignatureIsOmitted ==
    \A c \in Calls : (Returned(c) /\ signatureInfo[c] = <<"">>) =>
        LET n == Len(InPages(c)) IN
        \A p \in 1..n :
            LET line == LastItem(OutPages(c)[p])
                base == "BeaverDoc - UID: " \o uid[c] \o " | Token: " \o token[c]
                            \o " | Page " \o ToString(p) \o "/" \o ToString(n)
            IN  /\ line.text = base
                /\ Len(line.text) = Len(base)
                /\ 2 * line.x = OutPages(c)[p].width - WidthOfTextAtSize(base, 6)

\* C12 witness: a call with signatureInfo "" returned a two-page document.
C12_Witness ==
    \E c \in Calls :
        /\ Returned(c)
        /\ signatureInfo[c] = <<"">>
        /\ Len(InPages(c)) = 2

\* the pages a call returns when it runs alone on its input buffer with its
\* own uid, token, signatureInfo and timestamp
C11_RunAlone(c) ==
    LET in == InPages(c)
        n == Len(in)
    IN  [p \in 1..n |->
            [width |-> in[p].width,
             content |-> Append(in[p].content,
                 FooterItem(FooterText(uid[c], token[c], signatureInfo[c],
                                       timestamp[c], p - 1, n),
                            in[p].width))]]

\* C11: with two calls in progress at once, interleaved at their awaits in
\* any order, what a call returns is what it returns when run alone; a call
\* on a buffer without footers returns pages whose only footer line is its
\* own, so no footer of the other call is in its output.
C11_ReEntrant ==
    \A c \in Calls : Returned(c) =>
        /\ heap[result[c][1]] = Serialize(C11_RunAlone(c))
        /\ stamps[pdfBuffer[c]] = 0 =>
            \A p \in 1..Len(OutPages(c)) :
                /\ Len(FooterLines(OutPages(c)[p])) = 1
                /\ \A d \in Calls \ {c}, s \in SignatureInfos, t \in 0..clock :
                    FooterLines(OutPages(c)[p])[1].text
                        # FooterText(uid[d], token[d], s, ToLocaleStringFr(t),
                                     p - 1, Len(OutPages(c)))

\* C11 witness: two calls on the same buffer overlapped and both returned:
\* d took its timestamp (after embedFont) at second 0, c took its own at
\* second 1, and c's save completed before d's.
C11_Witness ==
    \E c, d \in Calls :
        /\ c # d
        /\ Returned(c) /\ Returned(d)
        /\ pdfBuffer[c] = 1 /\ pdfBuffer[d] = 1
        /\ Len(OutPages(c)) = 2
        /\ timestamp[d] = ToLocaleStringFr(0)
        /\ timestamp[c] = ToLocaleStringFr(1)
        /\ result[c][1] < result[d][1]

\* the status a handler sends on success
C13_SuccessCode(k) ==
    CASE k = "upload" -> 201
      [] k = "sign" -> 200
      [] k = "share" -> 201
      [] k = "unshare" -> 204
      [] OTHER -> 0

\* the action a handler writes in its audit-log row
C13_AuditAction(k) ==
    CASE k = "upload" -> "create"
      [] k = "sign" -> "sign"
      [] OTHER -> "share"

\* what C13 says of a state: a request that wrote an audit-log row had its
\* primary storage operation succeed and wrote one row; a request answered
\* with its success status (201, 200, 201, 204) has written its row; a
\* request whose primary operation failed, or that was answered 404, has
\* written none; the log holds the rows of the requests and no other.
C13_Rows ==
    /\ \A r \in Reqs :
        /\ reqRows[r] \in {0, 1}
        /\ reqRows[r] = 1 => reqPrimary[r] = "ok"
        /\ reqStatus[r] \in {200, 201, 204} =>
            /\ reqStatus[r] = C13_SuccessCode(reqKind[r])
            /\ reqRows[r] = 1
        /\ (reqPrimary[r] = "failed" \/ reqStatus[r] = 404) => reqRows[r] = 0
    /\ Len(auditLogs) = Cardinality({r \in Reqs : reqRows[r] = 1})

\* what C13 says of a step: the row is written by a step that starts with
\* the primary operation already completed, it carries the handler's action
\* and document, and the success status is sent by a step that starts with
\* the row already written.
C13_Order ==
    \A r \in Reqs :
        /\ reqRows'[r] > reqRows[r] =>
            /\ reqPrimary[r] = "ok"
            /\ reqStatus[r] = 0 /\ reqStatus'[r] = 0
            /\ auditLogs' = Append(auditLogs,
                   [documentId |-> reqDoc[r], userId |-> 1,
                    action |-> C13_AuditAction(reqKind[r])])
        /\ (reqStatus[r] = 0 /\ reqStatus'[r] \in {200, 201, 204}) =>
            /\ reqRows[r] = 1
            /\ auditLogs' = auditLogs

\* C13: in the upload, sign, share and remove-share handlers the audit-log
\* row is written only after the primary storage operation succeeded, the
\* success response is sent only after the row is written, and a request
\* whose primary operation fails or that gets 404 writes no row.
C13_AuditAfterPrimary == []C13_Rows /\ [][C13_Order]_vars

\* C13 witness: a remove-share request was answered 204 with its row
\* written, and a sign request for a missing document was answered 404
\* with no row.
C13_Witness ==
    \E r, q \in Reqs :
        /\ reqKind[r] = "unshare" /\ reqStatus[r] = 204 /\ reqRows[r] = 1
        /\ reqKind[q] = "sign" /\ reqStatus[q] = 404 /\ reqRows[q] = 0
        /\ Len(auditLogs) = 1
====
